---------------------------- MODULE Spec2Model ----------------------------
(* Campus-Dash: the order placement transaction of services/mockBackend.ts *)
(* over the Dexie store of localDB.ts, and the cart state of App.tsx.      *)
EXTENDS Integers, Sequences, FiniteSets, TLC

VARIABLES
    dbProducts,   \* db.products: product id -> stock (empty before seeding)
    dbOrders,     \* db.orders: set of Order records, keyed by id
    txOwner,      \* the placeOrder call whose 'rw' transaction is running
    txUndo,       \* what the running transaction restores when it aborts
    calls,        \* the placeOrder calls: position, arguments, result
    fetch,        \* the app's initApp / getProducts chain: position
    products,     \* App state `products`: the last fetched product list
    cartItems,    \* App state `cartItems`: sequence of cart lines
    lastOp,       \* the cart operation that ran last, with its arguments
    now,          \* the clock that new Date() reads
    userOrders,   \* the last getUserOrders call: its argument and its result
    seeder        \* an initializeDatabase call overlapping the app's chain

vars == <<dbProducts, dbOrders, txOwner, txUndo, calls, fetch, products,
          cartItems, lastOp, now, userOrders, seeder>>

storeVars == <<dbProducts, dbOrders, txOwner, txUndo, calls>>
appVars == <<fetch, products, cartItems, lastOp>>
sideVars == <<now, userOrders, seeder>>

-----------------------------------------------------------------------------
(* Bounds and input sets *)

MaxStock == 2
MaxTicks == 1

PIDs == {"p1", "p2"}
Calls == {"c1", "c2"}
OrderIds == {"ORD-A", "ORD-B"}
UserIds == {"u1"}
Hostels == {"", "H4"}
Rooms == {"", "101"}

\* constants.ts PRODUCTS: the catalog that seeds the store
Price(p) == IF p = "p1" THEN 1 ELSE 2
PRODUCTS == [p \in PIDs |-> IF p = "p1" THEN MaxStock ELSE MaxStock - 1]

Quantities == 1..MaxStock
Lines == [id : PIDs, quantity : Quantities]

\* a CartItem carries the product's fields and a quantity
CartItem(p, q) == [id |-> p, quantity |-> q, price |-> Price(p)]

\* the `items` a caller may pass: no line, one line, or two lines (which may
\* name the same product twice)
ItemLists ==
    {<<>>} \cup {<<CartItem(a.id, a.quantity)>> : a \in Lines}
           \cup {<<CartItem(a.id, a.quantity), CartItem(b.id, b.quantity)>> : a \in Lines, b \in Lines}

NoTx == "none"
EmptyTable == [p \in {} |-> 0]
NoUndo == [products |-> EmptyTable, orders |-> {}]
NoQuery == [userId |-> "", result |-> <<>>]

-----------------------------------------------------------------------------
(* Pure helpers of placeOrder *)

LineAmount(item) == item.price * item.quantity

RECURSIVE ItemsTotal(_)
ItemsTotal(items) ==
    IF items = <<>> THEN 0 ELSE LineAmount(Head(items)) + ItemsTotal(Tail(items))

\* items.find(i => i.id === product.id): the first line of the product
FindItem(items, p) ==
    LET idx == {i \in 1..Len(items) : items[i].id = p}
    IN  IF idx = {} THEN 0 ELSE CHOOSE i \in idx : \A j \in idx : i <= j

\* step 2: the loop throws on the first line whose product is missing or short
LineFails(prods, item) ==
    \/ item.id \notin DOMAIN prods
    \/ prods[item.id] < item.quantity

\* variant: the loop only checks that the product exists
ValidateStock_ExistsOnly(prods, items) ==
    \A i \in 1..Len(items) : items[i].id \in DOMAIN prods

\* variant: only the first line is validated
ValidateStock_FirstLine(prods, items) ==
    (Len(items) > 0) => ~LineFails(prods, items[1])

ValidateStock(prods, items) == \A i \in 1..Len(items) : ~LineFails(prods, items[i])

\* step 3: products.map(...) with items.find(...)
UpdatedProducts(prods, items) ==
    [p \in DOMAIN prods |->
        IF FindItem(items, p) # 0
        THEN prods[p] - items[FindItem(items, p)].quantity
        ELSE prods[p]]

\* the clock reading when the first session opened the database
Epoch == 9

\* new Date().toISOString(): a fixed-width digit string, here of two digits
ToISOString(t) == <<(t \div 10) % 10, t % 10>>

\* a < b on two such strings, character by character as JavaScript compares
IsoLess(a, b) == \/ a[1] < b[1]
                 \/ a[1] = b[1] /\ a[2] < b[2]

\* step 5: the Order record
NewOrder(id, userId, items, hostel, room, totalAmount, createdAt) ==
    [id |-> id, userId |-> userId, items |-> items, totalAmount |-> totalAmount,
     status |-> "confirmed", deliveryDetails |-> [hostel |-> hostel, room |-> room],
     createdAt |-> createdAt]

\* variant: no key is ever found taken, as with put in place of add
OrderKeys_None(orders) == {}

OrderKeys(orders) == {o.id : o \in orders}

\* variant: bulkPut, which overwrites the records whose key is taken
BulkAdd_Overwrite(table, recs) ==
    [p \in DOMAIN table \cup DOMAIN recs |->
        IF p \in DOMAIN recs THEN recs[p] ELSE table[p]]

\* db.products.bulkAdd: adds the records whose key is free, never overwrites
BulkAdd(table, recs) ==
    [p \in DOMAIN table \cup DOMAIN recs |->
        IF p \in DOMAIN table THEN table[p] ELSE recs[p]]

\* bulkAdd rejects with a BulkError when some record's key is taken
BulkAddFails(table, recs) == DOMAIN table \cap DOMAIN recs # {}

\* variant: an abort that keeps what the transaction wrote
Rollback_Keep(undo, cur) == cur

\* what an aborting transaction leaves in the store
Rollback(undo, cur) == undo

\* IndexedDB outlives the page: the database the app opens is either new or
\* the one an earlier session left, seeded and with that session's order
PriorOrder ==
    NewOrder("ORD-A", "u0", <<CartItem("p1", 1)>>, "H4", "101", Price("p1"),
             ToISOString(Epoch - 1))
OpenedStores ==
    {[products |-> EmptyTable, orders |-> {}],
     [products |-> UpdatedProducts(PRODUCTS, PriorOrder.items), orders |-> {PriorOrder}]}

IdleCall == [pc |-> "idle", userId |-> "", items |-> <<>>, hostel |-> "", room |-> "",
             totalAmount |-> 0, read |-> EmptyTable, result |-> ""]

\* a call whose outcome the caller has taken
SettledCall == [IdleCall EXCEPT !.pc = "settled"]

-----------------------------------------------------------------------------
Init ==
    /\ \E st \in OpenedStores : dbProducts = st.products /\ dbOrders = st.orders
    /\ txOwner = NoTx
    /\ txUndo = NoUndo
    /\ calls = [c \in Calls |-> IdleCall]
    /\ fetch = "initCount"
    /\ products = EmptyTable
    /\ cartItems = <<>>
    /\ lastOp = [op |-> "none", id |-> "", arg |-> 0, q |-> 0]
    /\ now = Epoch
    /\ userOrders = NoQuery
    /\ seeder = "count"

-----------------------------------------------------------------------------
(* seedProducts / initializeDatabase / getProducts, as run by initApp and   *)
(* handleOrderComplete                                                      *)

\* implicit transactions wait for a running 'rw' transaction on their tables
StoreFree == txOwner = NoTx

\* const count = await db.products.count()
SeedCount ==
    /\ fetch \in {"initCount", "getCount"}
    /\ StoreFree
    /\ fetch' = IF Cardinality(DOMAIN dbProducts) = 0
                THEN (IF fetch = "initCount" THEN "initAdd" ELSE "getAdd")
                ELSE (IF fetch = "initCount" THEN "getCount" ELSE "getRead")
    /\ UNCHANGED <<storeVars, products, cartItems, lastOp, sideVars>>

\* await db.products.bulkAdd(PRODUCTS); it rejects when a key is taken:
\* initApp catches that around initializeDatabase and goes on to getProducts,
\* while a getProducts that rejects sets no product list
SeedAdd ==
    /\ fetch \in {"initAdd", "getAdd"}
    /\ StoreFree
    /\ dbProducts' = BulkAdd(dbProducts, PRODUCTS)
    /\ fetch' = IF fetch = "initAdd" THEN "getCount"
                ELSE IF BulkAddFails(dbProducts, PRODUCTS) THEN "idle" ELSE "getRead"
    /\ UNCHANGED <<dbOrders, txOwner, txUndo, calls, products, cartItems, lastOp, sideVars>>

\* return db.products.toArray(); setProducts(...)
GetProductsRead ==
    /\ fetch = "getRead"
    /\ StoreFree
    /\ products' = dbProducts
    /\ fetch' = "idle"
    /\ UNCHANGED <<storeVars, cartItems, lastOp, sideVars>>

-----------------------------------------------------------------------------
(* mockBackend.placeOrder *)

\* the call is made; await delay(1500)
PlaceOrder(c, userId, items, hostel, room, totalAmount) ==
    /\ calls[c].pc = "idle"
    /\ calls' = [calls EXCEPT ![c] = [IdleCall EXCEPT !.pc = "delay", !.userId = userId,
                    !.items = items, !.hostel = hostel, !.room = room,
                    !.totalAmount = totalAmount]]
    /\ UNCHANGED <<dbProducts, dbOrders, txOwner, txUndo, appVars, sideVars>>

\* db.transaction('rw', db.products, db.orders, ...) starts
TxBegin(c) ==
    /\ calls[c].pc = "delay"
    /\ StoreFree
    /\ txOwner' = c
    /\ txUndo' = [products |-> dbProducts, orders |-> dbOrders]
    /\ calls' = [calls EXCEPT ![c].pc = "read"]
    /\ UNCHANGED <<dbProducts, dbOrders, appVars, sideVars>>

\* const products = await db.products.toArray()
TxRead(c) ==
    /\ calls[c].pc = "read"
    /\ txOwner = c
    /\ calls' = [calls EXCEPT ![c].pc = "validate", ![c].read = dbProducts]
    /\ UNCHANGED <<dbProducts, dbOrders, txOwner, txUndo, appVars, sideVars>>

\* the validation loop, the map and db.products.bulkPut(updatedProducts)
TxValidate(c) ==
    /\ calls[c].pc = "validate"
    /\ txOwner = c
    /\ IF ValidateStock(calls[c].read, calls[c].items)
       THEN /\ dbProducts' = UpdatedProducts(calls[c].read, calls[c].items)
            /\ calls' = [calls EXCEPT ![c].pc = "add"]
       ELSE /\ dbProducts' = dbProducts
            /\ calls' = [calls EXCEPT ![c].pc = "abort", ![c].result = "insufficient"]
    /\ UNCHANGED <<dbOrders, txOwner, txUndo, appVars, sideVars>>

\* newOrder with a Math.random id; await db.orders.add(newOrder)
TxAdd(c) ==
    /\ calls[c].pc = "add"
    /\ txOwner = c
    /\ \E id \in OrderIds :
          IF id \in OrderKeys(dbOrders)
          THEN /\ dbOrders' = dbOrders
               /\ calls' = [calls EXCEPT ![c].pc = "abort", ![c].result = "constraint"]
          ELSE /\ dbOrders' = dbOrders \cup
                      {NewOrder(id, calls[c].userId, calls[c].items, calls[c].hostel,
                                calls[c].room, calls[c].totalAmount, ToISOString(now))}
               /\ calls' = [calls EXCEPT ![c].pc = "commit"]
    /\ UNCHANGED <<dbProducts, txOwner, txUndo, appVars, sideVars>>

\* the scope function returned: the transaction commits
TxCommit(c) ==
    /\ calls[c].pc = "commit"
    /\ txOwner = c
    /\ txOwner' = NoTx
    /\ txUndo' = NoUndo
    /\ calls' = [calls EXCEPT ![c].pc = "done", ![c].result = "ok"]
    /\ UNCHANGED <<dbProducts, dbOrders, appVars, sideVars>>

\* the scope function threw: the transaction aborts and the promise rejects
TxAbort(c) ==
    /\ calls[c].pc = "abort"
    /\ txOwner = c
    /\ dbProducts' = Rollback(txUndo.products, dbProducts)
    /\ dbOrders' = Rollback(txUndo.orders, dbOrders)
    /\ txOwner' = NoTx
    /\ txUndo' = NoUndo
    /\ calls' = [calls EXCEPT ![c].pc = "done"]
    /\ UNCHANGED <<appVars, sideVars>>

-----------------------------------------------------------------------------
(* App.tsx: the cart *)

Deltas == {-100, -1, 1, 2}

\* prev.find(item => item.id === id): index of the first such line, 0 if none
FindLine(cart, id) ==
    LET idx == {i \in 1..Len(cart) : cart[i].id = id}
    IN  IF idx = {} THEN 0 ELSE CHOOSE i \in idx : \A j \in idx : i <= j

\* variant: the stock check compares with > instead of >=
AddToCartFn_OffByOne(prev, product) ==
    LET e == FindLine(prev, product.id)
    IN  IF e # 0
        THEN IF prev[e].quantity > product.stock THEN prev
             ELSE [i \in 1..Len(prev) |->
                      IF prev[i].id = product.id
                      THEN [prev[i] EXCEPT !.quantity = prev[i].quantity + 1]
                      ELSE prev[i]]
        ELSE IF product.stock <= 0 THEN prev
             ELSE Append(prev, CartItem(product.id, 1))

\* the updater addToCart passes to setCartItems
AddToCartFn(prev, product) ==
    LET e == FindLine(prev, product.id)
    IN  IF e # 0
        THEN IF prev[e].quantity >= product.stock THEN prev
             ELSE [i \in 1..Len(prev) |->
                      IF prev[i].id = product.id
                      THEN [prev[i] EXCEPT !.quantity = prev[i].quantity + 1]
                      ELSE prev[i]]
        ELSE IF product.stock <= 0 THEN prev
             ELSE Append(prev, CartItem(product.id, 1))

Max(a, b) == IF a >= b THEN a ELSE b
Min(a, b) == IF a <= b THEN a ELSE b

\* variant: the lines that reach zero are kept
UpdateQuantityFn_NoFilter(prev, prods, id, delta) ==
    [i \in 1..Len(prev) |->
        IF prev[i].id = id
        THEN IF id \notin DOMAIN prods THEN prev[i]
             ELSE IF prev[i].quantity + delta > prods[id] THEN prev[i]
             ELSE [prev[i] EXCEPT !.quantity = Max(0, prev[i].quantity + delta)]
        ELSE prev[i]]

\* the updater updateQuantity passes to setCartItems: map, then filter
UpdateQuantityFn(prev, prods, id, delta) ==
    LET mapped ==
            [i \in 1..Len(prev) |->
                IF prev[i].id = id
                THEN IF id \notin DOMAIN prods THEN prev[i]
                     ELSE IF prev[i].quantity + delta > prods[id] THEN prev[i]
                     ELSE [prev[i] EXCEPT !.quantity = Max(0, prev[i].quantity + delta)]
                ELSE prev[i]]
        Keep(item) == item.quantity > 0
    IN  SelectSeq(mapped, Keep)

\* cartCount: cartItems.reduce((acc, item) => acc + item.quantity, 0)
RECURSIVE CartCount(_)
CartCount(cart) ==
    IF cart = <<>> THEN 0 ELSE Head(cart).quantity + CartCount(Tail(cart))

QtyInCart(cart, id) == IF FindLine(cart, id) = 0 THEN 0 ELSE cart[FindLine(cart, id)].quantity

\* a product card's onAdd: the product comes from the rendered `products`
AddToCart(p) ==
    /\ p \in DOMAIN products
    /\ cartItems' = AddToCartFn(cartItems, [id |-> p, stock |-> products[p]])
    /\ lastOp' = [op |-> "add", id |-> p, arg |-> products[p], q |-> QtyInCart(cartItems, p)]
    /\ UNCHANGED <<storeVars, fetch, products, sideVars>>

\* the cart sidebar's onUpdateQuantity on one of its lines
UpdateQuantity(id, delta) ==
    /\ FindLine(cartItems, id) # 0
    /\ cartItems' = UpdateQuantityFn(cartItems, products, id, delta)
    /\ lastOp' = [op |-> "setQuantity", id |-> id, arg |-> delta, q |-> QtyInCart(cartItems, id)]
    /\ UNCHANGED <<storeVars, fetch, products, sideVars>>

\* clearCart(): setCartItems([])
ClearCart ==
    /\ cartItems' = <<>>
    /\ lastOp' = [op |-> "clear", id |-> "", arg |-> 0, q |-> 0]
    /\ UNCHANGED <<storeVars, fetch, products, sideVars>>

\* the cart sidebar's checkout: placeOrder on the cart's lines
Checkout(c) ==
    /\ cartItems # <<>>
    /\ \E u \in UserIds : PlaceOrder(c, u, cartItems, "H4", "101", ItemsTotal(cartItems))

\* onOrderComplete after placeOrder resolved: clearCart(), then the refresh
\* getProducts() whose result setProducts stores
HandleOrderComplete(c) ==
    /\ calls[c].pc = "done"
    /\ calls[c].result = "ok"
    /\ fetch = "idle"
    /\ calls' = [calls EXCEPT ![c] = SettledCall]
    /\ cartItems' = <<>>
    /\ fetch' = "getCount"
    /\ lastOp' = [op |-> "orderComplete", id |-> "", arg |-> 0, q |-> 0]
    /\ UNCHANGED <<dbProducts, dbOrders, txOwner, txUndo, products, sideVars>>

\* placeOrder rejected: the sidebar shows the error, the cart stays
HandleOrderFailed(c) ==
    /\ calls[c].pc = "done"
    /\ calls[c].result # "ok"
    /\ calls' = [calls EXCEPT ![c] = SettledCall]
    /\ UNCHANGED <<dbProducts, dbOrders, txOwner, txUndo, appVars, sideVars>>

-----------------------------------------------------------------------------
\* what a caller of placeOrder(userId, items, deliveryDetails, totalAmount) passes
Invoke(c) ==
    \E u \in UserIds, items \in ItemLists :
        PlaceOrder(c, u, items, "H4", "101", ItemsTotal(items))

Next ==
    \/ SeedCount
    \/ SeedAdd
    \/ GetProductsRead
    \/ \E c \in Calls : Invoke(c)
    \/ \E c \in Calls : TxBegin(c)
    \/ \E c \in Calls : TxRead(c)
    \/ \E c \in Calls : TxValidate(c)
    \/ \E c \in Calls : TxAdd(c)
    \/ \E c \in Calls : TxCommit(c)
    \/ \E c \in Calls : TxAbort(c)

Spec == Init /\ [][Next]_vars

\* one caller at a time, with every shape of request
InvokeAny(c) ==
    \E u \in UserIds, items \in ItemLists, h \in Hostels, r \in Rooms, extra \in {0, 1} :
        PlaceOrder(c, u, items, h, r, ItemsTotal(items) + extra)

NextInput ==
    \/ SeedCount
    \/ SeedAdd
    \/ GetProductsRead
    \/ InvokeAny("c1")
    \/ \E c \in Calls : TxBegin(c)
    \/ \E c \in Calls : TxRead(c)
    \/ \E c \in Calls : TxValidate(c)
    \/ \E c \in Calls : TxAdd(c)
    \/ \E c \in Calls : TxCommit(c)
    \/ \E c \in Calls : TxAbort(c)

SpecInput == Init /\ [][NextInput]_vars

\* the app session: the cart, its checkout and the refresh after an order
NextApp ==
    \/ SeedCount
    \/ SeedAdd
    \/ GetProductsRead
    \/ \E p \in PIDs : AddToCart(p)
    \/ \E p \in PIDs, d \in Deltas : UpdateQuantity(p, d)
    \/ ClearCart
    \/ Checkout("c1")
    \/ \E c \in Calls : TxBegin(c)
    \/ \E c \in Calls : TxRead(c)
    \/ \E c \in Calls : TxValidate(c)
    \/ \E c \in Calls : TxAdd(c)
    \/ \E c \in Calls : TxCommit(c)
    \/ \E c \in Calls : TxAbort(c)
    \/ HandleOrderComplete("c1")
    \/ HandleOrderFailed("c1")

SpecApp == Init /\ [][NextApp]_vars

\* a session in which the cart is only added to
NextAdd ==
    \/ SeedCount
    \/ SeedAdd
    \/ GetProductsRead
    \/ \E p \in PIDs : AddToCart(p)
    \/ Invoke("c1")
    \/ \E c \in Calls : TxBegin(c)
    \/ \E c \in Calls : TxRead(c)
    \/ \E c \in Calls : TxValidate(c)
    \/ \E c \in Calls : TxAdd(c)
    \/ \E c \in Calls : TxCommit(c)
    \/ \E c \in Calls : TxAbort(c)

SpecAdd == Init /\ [][NextAdd]_vars

-----------------------------------------------------------------------------
(* a second initializeDatabase call that overlaps the app's chain and the   *)
(* placeOrder transactions                                                  *)

\* const count = await db.products.count()
OtherSeedCount ==
    /\ seeder = "count"
    /\ StoreFree
    /\ seeder' = IF Cardinality(DOMAIN dbProducts) = 0 THEN "add" ELSE "done"
    /\ UNCHANGED <<storeVars, appVars, now, userOrders>>

\* await db.products.bulkAdd(PRODUCTS)
OtherSeedAdd ==
    /\ seeder = "add"
    /\ StoreFree
    /\ dbProducts' = BulkAdd(dbProducts, PRODUCTS)
    /\ seeder' = IF BulkAddFails(dbProducts, PRODUCTS) THEN "failed" ELSE "done"
    /\ UNCHANGED <<dbOrders, txOwner, txUndo, calls, appVars, now, userOrders>>

NextSeed ==
    \/ SeedCount
    \/ SeedAdd
    \/ GetProductsRead
    \/ OtherSeedCount
    \/ OtherSeedAdd
    \/ Invoke("c1")
    \/ \E c \in Calls : TxBegin(c)
    \/ \E c \in Calls : TxRead(c)
    \/ \E c \in Calls : TxValidate(c)
    \/ \E c \in Calls : TxAdd(c)
    \/ \E c \in Calls : TxCommit(c)
    \/ \E c \in Calls : TxAbort(c)

SpecSeed == Init /\ [][NextSeed]_vars

-----------------------------------------------------------------------------
(* mockBackend.getUserOrders *)

\* user ids as orders carry them, and as a caller may ask for them
HistoryUsers == {"u1", "U1"}
QueryIds == {"u1", "U1", "U0"}

\* String.prototype.toLowerCase on the ids above
ToLowerCase(u) ==
    CASE u = "U1" -> "u1"
      [] u = "U0" -> "u0"
      [] OTHER -> u

\* where('userId').equalsIgnoreCase(userId)
EqualsIgnoreCase(orders, userId) ==
    {o \in orders : ToLowerCase(o.userId) = ToLowerCase(userId)}

\* the order of the userId index: by userId as a binary string, then by id
UserRank(u) == CASE u = "U0" -> 1 [] u = "U1" -> 2 [] u = "u0" -> 3 [] OTHER -> 4
IdRank(id) == IF id = "ORD-A" THEN 1 ELSE 2
IndexBefore(a, b) ==
    \/ UserRank(a.userId) < UserRank(b.userId)
    \/ UserRank(a.userId) = UserRank(b.userId) /\ IdRank(a.id) < IdRank(b.id)

\* variant: sortBy('createdAt') without reverse()
ComesFirst_Ascending(a, b) ==
    \/ IsoLess(a.createdAt, b.createdAt)
    \/ a.createdAt = b.createdAt /\ IndexBefore(a, b)

\* reverse() walks the index backwards and makes the sorter descending; the
\* sort is stable, so equal createdAt keeps the backward index order
ComesFirst(a, b) ==
    \/ IsoLess(b.createdAt, a.createdAt)
    \/ a.createdAt = b.createdAt /\ IndexBefore(b, a)

RECURSIVE SortBy(_)
SortBy(S) ==
    IF S = {} THEN <<>>
    ELSE LET first == CHOOSE a \in S : \A b \in S \ {a} : ComesFirst(a, b)
         IN  <<first>> \o SortBy(S \ {first})

GetUserOrdersFn(orders, userId) == SortBy(EqualsIgnoreCase(orders, userId))

\* await delay(500); return db.orders.where(...)...sortBy('createdAt')
GetUserOrders(userId) ==
    /\ StoreFree
    /\ userOrders' = [userId |-> userId, result |-> GetUserOrdersFn(dbOrders, userId)]
    /\ UNCHANGED <<storeVars, appVars, now, seeder>>

\* time passes between two readings of the clock
Tick ==
    /\ now < Epoch + MaxTicks
    /\ now' = now + 1
    /\ UNCHANGED <<storeVars, appVars, userOrders, seeder>>

\* placeOrder as called for users whose ids differ in case
InvokeAs(c) ==
    \E u \in HistoryUsers, p \in PIDs :
        PlaceOrder(c, u, <<CartItem(p, 1)>>, "H4", "101", Price(p))

NextHistory ==
    \/ SeedCount
    \/ SeedAdd
    \/ GetProductsRead
    \/ Tick
    \/ \E c \in Calls : InvokeAs(c)
    \/ \E c \in Calls : TxBegin(c)
    \/ \E c \in Calls : TxRead(c)
    \/ \E c \in Calls : TxValidate(c)
    \/ \E c \in Calls : TxAdd(c)
    \/ \E c \in Calls : TxCommit(c)
    \/ \E c \in Calls : TxAbort(c)
    \/ \E u \in QueryIds : GetUserOrders(u)

SpecHistory == Init /\ [][NextHistory]_vars

-----------------------------------------------------------------------------
\* the app session with two checkouts, one after the other or overlapping
NextShop ==
    \/ NextApp
    \/ Checkout("c2")
    \/ HandleOrderComplete("c2")
    \/ HandleOrderFailed("c2")

SpecShop == Init /\ [][NextShop]_vars


-----------------------------------------------------------------------------
(* Measures over the store used by the properties *)

\* sum of the quantities of all lines of `items` that name product p
RECURSIVE LineQty(_, _)
LineQty(items, p) ==
    IF items = <<>> THEN 0
    ELSE (IF Head(items).id = p THEN Head(items).quantity ELSE 0) + LineQty(Tail(items), p)

\* sum over the confirmed orders of the quantities of their lines of product p
RECURSIVE OrderedQty(_, _)
OrderedQty(orders, p) ==
    IF orders = {} THEN 0
    ELSE LET o == CHOOSE x \in orders : TRUE
         IN  (IF o.status = "confirmed" THEN LineQty(o.items, p) ELSE 0)
             + OrderedQty(orders \ {o}, p)

\* the decrement one placeOrder commit applies to product p
Deducted(items, p) ==
    IF \E i \in 1..Len(items) : items[i].id = p
    THEN items[CHOOSE i \in 1..Len(items) :
                   items[i].id = p /\ \A j \in 1..(i - 1) : items[j].id # p].quantity
    ELSE 0

RECURSIVE DeductedQty(_, _)
DeductedQty(orders, p) ==
    IF orders = {} THEN 0
    ELSE LET o == CHOOSE x \in orders : TRUE
         IN  Deducted(o.items, p) + DeductedQty(orders \ {o}, p)

\* decrements and orders go together: every stock is the seeded stock minus
\* the decrements of exactly the orders in the order store
Consistent(prods, orders) ==
    \A p \in DOMAIN prods : prods[p] = PRODUCTS[p] - DeductedQty(orders, p)

OkCalls == {c \in Calls : calls[c].pc = "done" /\ calls[c].result = "ok"}
NewOrders == {o \in dbOrders : o.userId \in UserIds}

-----------------------------------------------------------------------------
(* C1: for every interleaving of concurrent placeOrder calls whose lines   *)
(* each ask for at least one unit, the stock of every product is >= 0 in   *)
(* every reachable store state, inside a transaction included.             *)
C1_StockNeverNegative ==
    \A p \in DOMAIN dbProducts : dbProducts[p] >= 0

\* two calls in flight at once, one inside its transaction having taken the
\* last units of a product the other call also asks for
C1_Witness ==
    \E c \in Calls, d \in Calls, p \in PIDs :
        /\ c # d
        /\ calls[c].pc = "commit"
        /\ calls[d].pc = "delay"
        /\ p \in DOMAIN dbProducts /\ dbProducts[p] = 0
        /\ LineQty(calls[c].items, p) > 0
        /\ LineQty(calls[d].items, p) > 0

(* C2: at every quiescent point (no placeOrder transaction in flight) the  *)
(* stock of each product is its seeded stock minus the sum of the          *)
(* quantities of all lines naming it in the confirmed orders of the store. *)
C2_StockMatchesOrders ==
    (txOwner = NoTx) =>
        \A p \in DOMAIN dbProducts : dbProducts[p] = PRODUCTS[p] - OrderedQty(dbOrders, p)

(* C3: when a line asks for more than the current stock of its product     *)
(* (or names a product the store does not hold), the call fails with a     *)
(* stock-insufficiency error, and neither the failing step nor the abort   *)
(* that follows changes any stock or the order store.                      *)
C3_InsufficientLeavesStore ==
    [][\A c \in Calls :
          /\ ( /\ calls[c].pc = "validate"
               /\ calls'[c].pc # "validate"
               /\ \E i \in 1..Len(calls[c].items) : LineFails(dbProducts, calls[c].items[i]) )
             => ( /\ calls'[c].pc = "abort"
                  /\ calls'[c].result = "insufficient"
                  /\ dbProducts' = dbProducts
                  /\ dbOrders' = dbOrders )
          /\ ( /\ calls[c].pc = "abort"
               /\ calls[c].result = "insufficient"
               /\ calls'[c].pc # "abort" )
             => ( /\ calls'[c].pc = "done"
                  /\ calls'[c].result = "insufficient"
                  /\ dbProducts' = dbProducts /\ dbProducts' = txUndo.products
                  /\ dbOrders' = dbOrders /\ dbOrders' = txUndo.orders )
      ]_vars

\* a two-line call whose first line had enough stock and whose second had
\* not has failed, and the store is as seeded
C3_Witness ==
    \E c \in Calls :
        /\ calls[c].pc = "done"
        /\ calls[c].result = "insufficient"
        /\ Len(calls[c].items) = 2
        /\ dbProducts = PRODUCTS
        /\ dbOrders = {}
        /\ ~LineFails(dbProducts, calls[c].items[1])
        /\ LineFails(dbProducts, calls[c].items[2])

(* C4: when two concurrent calls each ask for the full remaining stock     *)
(* s > 0 of one product, exactly one returns its order, the other fails    *)
(* with stock insufficiency, the final stock is 0 and exactly one new      *)
(* order is in the order store.  (The stock a call found is what its        *)
(* transaction read: the first of the two read s, the other s or 0.)       *)
C4_ExactlyOneWins ==
    \A p \in PIDs, s \in 1..MaxStock :
        ( /\ \A c \in Calls : /\ calls[c].pc = "done"
                               /\ calls[c].items = <<CartItem(p, s)>>
                               /\ p \in DOMAIN calls[c].read
                               /\ calls[c].read[p] \in {0, s}
          /\ \E c \in Calls : calls[c].read[p] = s )
        => ( /\ Cardinality(OkCalls) = 1
             /\ \A c \in Calls \ OkCalls : calls[c].result = "insufficient"
             /\ dbProducts[p] = 0
             /\ Cardinality(NewOrders) = 1 )

(* C5: the transaction is indivisible.  Whenever the store can be read by  *)
(* anyone else (no 'rw' transaction running), the stocks are the seeded    *)
(* stocks minus the decrements of exactly the orders present, so a call's  *)
(* decrements are never there without its order nor its order without its  *)
(* decrements; in particular a failed order insertion has rolled the       *)
(* decrements back.  What getProducts reads agrees with the order store.   *)
C5_TransactionAtomic ==
    /\ [](StoreFree => Consistent(dbProducts, dbOrders))
    /\ [][(fetch = "getRead" /\ fetch' = "idle") => Consistent(products', dbOrders')]_vars

\* a call whose order insertion failed on a duplicate id, after its stock
\* update, is over and the store is readable again
C5_Witness ==
    \E c \in Calls :
        /\ calls[c].pc = "done"
        /\ calls[c].result = "constraint"
        /\ calls[c].items # <<>>
        /\ StoreFree

(* C6: a call with no lines, or with an empty hostel or room, is rejected: *)
(* it never returns an order and no order with such a shape is stored.     *)
Malformed(call) == call.items = <<>> \/ call.hostel = "" \/ call.room = ""

C6_MalformedRejected ==
    /\ \A c \in Calls : (calls[c].pc # "idle" /\ Malformed(calls[c])) => calls[c].result # "ok"
    /\ \A o \in dbOrders :
          o.items # <<>> /\ o.deliveryDetails.hostel # "" /\ o.deliveryDetails.room # ""

(* C7: every order in the order store has a total amount equal to the sum  *)
(* of price x quantity over its lines.                                     *)
C7_TotalMatchesLines ==
    \A o \in dbOrders : o.totalAmount = ItemsTotal(o.items)

(* C8: in a run of add(product) calls the cart line of a product never     *)
(* holds more than the product's stock s: an add that would pass s leaves  *)
(* the cart as it is (an absent product with stock 0 gets no line), any    *)
(* other add raises that line, and only that line, by one.                 *)
C8_AddCapped ==
    /\ [](\A i \in 1..Len(cartItems) :
             /\ cartItems[i].id \in DOMAIN products
             /\ cartItems[i].quantity <= products[cartItems[i].id])
    /\ [][\A p \in PIDs :
            AddToCart(p) =>
                LET s == products[p]
                    q == QtyInCart(cartItems, p)
                IN  /\ (q + 1 > s) => (cartItems' = cartItems)
                    /\ (q + 1 <= s) =>
                          /\ QtyInCart(cartItems', p) = q + 1
                          /\ \A o \in PIDs \ {p} :
                                QtyInCart(cartItems', o) = QtyInCart(cartItems, o)
         ]_vars

\* the line stands at the product's stock and the last add, made at that
\* quantity, left it there
C8_Witness ==
    /\ lastOp.op = "add"
    /\ lastOp.arg = MaxStock
    /\ lastOp.q = MaxStock
    /\ QtyInCart(cartItems, lastOp.id) = MaxStock

(* C9 as stated: setQuantity(id, delta) on a line with quantity q leaves   *)
(* q + delta clamped into 0..stock, the line being removed at zero.        *)
C9_Clamped ==
    [][\A id \in PIDs, d \in Deltas :
          (UpdateQuantity(id, d) /\ id \in DOMAIN products) =>
              LET q == QtyInCart(cartItems, id)
                  r == Max(0, Min(products[id], q + d))
              IN  /\ QtyInCart(cartItems', id) = r
                  /\ (r = 0) => (FindLine(cartItems', id) = 0)
      ]_vars

(* C9 amended: setQuantity(id, delta) on a line with quantity q leaves the *)
(* cart unchanged when q + delta exceeds the product's stock in the last   *)
(* fetched list (or the product is not in it); otherwise the quantity      *)
(* becomes max(0, q + delta), and at zero the line is removed and          *)
(* totalQuantity drops by q.  No other line changes.                       *)
C9_RejectOrFloor ==
    [][\A id \in PIDs, d \in Deltas :
          UpdateQuantity(id, d) =>
              LET q == QtyInCart(cartItems, id)
                  n == q + d
              IN  IF id \notin DOMAIN products \/ n > products[id]
                  THEN cartItems' = cartItems
                  ELSE /\ QtyInCart(cartItems', id) = Max(0, n)
                       /\ (n <= 0) => /\ FindLine(cartItems', id) = 0
                                      /\ CartCount(cartItems') = CartCount(cartItems) - q
                       /\ (n > 0) => (FindLine(cartItems', id) # 0)
                       /\ \A o \in PIDs \ {id} :
                             QtyInCart(cartItems', o) = QtyInCart(cartItems, o)
      ]_vars

\* setQuantity(id, -100) ran on a line of quantity 2 and the line is gone
C9_Witness ==
    /\ lastOp.op = "setQuantity"
    /\ lastOp.arg = -100
    /\ lastOp.q = 2
    /\ FindLine(cartItems, lastOp.id) = 0

(* C10: in every reachable state of the app every cart line has a quantity *)
(* of at least 1 and at most the stock of its product in the last fetched  *)
(* product list, and no product id is in two lines.                        *)
C10_CartWithinStock ==
    /\ \A i \in 1..Len(cartItems) :
          /\ cartItems[i].quantity >= 1
          /\ cartItems[i].id \in DOMAIN products
          /\ cartItems[i].quantity <= products[cartItems[i].id]
    /\ \A i \in 1..Len(cartItems), j \in 1..Len(cartItems) :
          (cartItems[i].id = cartItems[j].id) => (i = j)


\* the orders that committed transactions have left in the store
CommittedOrders == IF txOwner = NoTx THEN dbOrders ELSE txUndo.orders

\* C11: once an order is committed, every later step of the store or of the
\* cart leaves it in the store under its id with the same line items
C11_OrderLinesFrozen ==
    [][\A o \in CommittedOrders :
          /\ \E x \in dbOrders' : x.id = o.id
          /\ \A x \in dbOrders' : x.id = o.id => x.items = o.items]_vars

\* the earlier session's order on p1 is still in the store after a later
\* order has committed and lowered p1's stock, and after the cart has since
\* taken a line of p1
C11_Witness ==
    /\ StoreFree
    /\ PriorOrder \in dbOrders
    /\ Cardinality(dbOrders) = 2
    /\ calls["c1"].pc = "settled"
    /\ dbProducts["p1"] < UpdatedProducts(PRODUCTS, PriorOrder.items)["p1"]
    /\ lastOp.op = "add" /\ lastOp.id = "p1"
    /\ QtyInCart(cartItems, "p1") > 0

\* the result lists, once each, exactly the orders whose userId is the
\* argument up to letter case
ExactlyMatching(result, orders, userId) ==
    /\ {result[i] : i \in 1..Len(result)} =
          {o \in orders : ToLowerCase(o.userId) = ToLowerCase(userId)}
    /\ \A i, j \in 1..Len(result) : result[i] = result[j] => i = j

\* C12 as stated: getUserOrders(userId) returns exactly the orders whose
\* userId matches case-insensitively, each createdAt strictly later than the
\* next one's
C12_StrictlyDescending ==
    [][\A u \in QueryIds : GetUserOrders(u) =>
          /\ ExactlyMatching(userOrders'.result, dbOrders, u)
          /\ \A i, j \in 1..Len(userOrders'.result) : i < j =>
                IsoLess(userOrders'.result[j].createdAt, userOrders'.result[i].createdAt)]_vars

\* C12 amended: getUserOrders(userId) returns exactly the orders whose userId
\* matches case-insensitively, most recent first: no order comes before one
\* with a later createdAt, and orders with the same createdAt are adjacent
C12_Descending ==
    [][\A u \in QueryIds : GetUserOrders(u) =>
          /\ ExactlyMatching(userOrders'.result, dbOrders, u)
          /\ \A i, j \in 1..Len(userOrders'.result) : i < j =>
                ~IsoLess(userOrders'.result[i].createdAt, userOrders'.result[j].createdAt)]_vars

\* a query for "u1" returned the orders of "u1" and of "U1", the later one
\* first, while the store also holds the order of another user
C12_Witness ==
    /\ userOrders.userId = "u1"
    /\ Len(userOrders.result) = 2
    /\ userOrders.result[1].userId # userOrders.result[2].userId
    /\ userOrders.result[1].createdAt = ToISOString(Epoch + 1)
    /\ userOrders.result[2].createdAt = ToISOString(Epoch)

\* a step of a seedProducts call, from the app's chain or overlapping it
SeedStep == SeedCount \/ SeedAdd \/ OtherSeedCount \/ OtherSeedAdd

\* C13: once the product store holds records, no step of any seedProducts
\* call changes a product's stock, whatever it overlaps with
C13_SeedingKeepsStock ==
    [][(dbProducts # EmptyTable /\ SeedStep) => dbProducts' = dbProducts]_vars

\* the overlapping call counted an empty store, and its bulkAdd then met the
\* records another call had seeded; an order has lowered the seeded stock and
\* the lowered stock is what the store holds
C13_Witness ==
    /\ seeder = "failed"
    /\ StoreFree
    /\ calls["c1"].pc = "done" /\ calls["c1"].result = "ok"
    /\ \E p \in PIDs : dbProducts[p] < PRODUCTS[p]
    /\ Consistent(dbProducts, dbOrders)

\* nothing is in flight: no placeOrder call and no product fetch
Quiet ==
    /\ StoreFree
    /\ fetch = "idle"
    /\ \A c \in Calls : calls[c].pc \in {"idle", "settled"}

\* C14: when the store's stock equals the last-fetched product list and no
\* call is in flight, a checkout of the cart, which add and setQuantity
\* built, passes placeOrder's stock validation
C14_CartOrderable ==
    [][\A c \in Calls :
          (Quiet /\ products = dbProducts /\ Checkout(c))
             => ValidateStock(dbProducts, cartItems)]_vars

\* two or more lines of `items` name the same product
HasDuplicateLines(items) ==
    \E i, j \in 1..Len(items) : i < j /\ items[i].id = items[j].id

\* some product's lines together ask for more than the stock read
SumExceedsStock(prods, items) ==
    \E i \in 1..Len(items) :
        \/ items[i].id \notin DOMAIN prods
        \/ LineQty(items, items[i].id) > prods[items[i].id]

\* C15: on lines that name a product more than once, placeOrder fails with
\* stock insufficiency when the product's lines sum to more than its stock,
\* and otherwise decrements each stock by the sum of the product's lines
C15_DuplicateLinesSummed ==
    [][\A c \in Calls :
          (TxValidate(c) /\ HasDuplicateLines(calls[c].items)) =>
             IF SumExceedsStock(calls[c].read, calls[c].items)
             THEN calls'[c].result = "insufficient" /\ dbProducts' = dbProducts
             ELSE \A q \in DOMAIN dbProducts :
                     dbProducts'[q] = dbProducts[q] - LineQty(calls[c].items, q)]_vars

=============================================================================
